---------------------------- MODULE Spec2Model ----------------------------
(***************************************************************************)
(* A model of koolshare.py: the software-centre feed server.               *)
(*                                                                         *)
(* Text is a sequence of one-character strings, so that the regular        *)
(* expressions, strip/rstrip, find, normpath and basename of the source    *)
(* are computed character by character.  A path on disk is a sequence of   *)
(* segments, each segment a text.                                          *)
(***************************************************************************)
EXTENDS Integers, Sequences, FiniteSets, TLC

VARIABLES
    disk,       \* the regular files of the file system (absolute segment paths)
    files,      \* the text files under BASE: name -> text, or Missing
    tar_url,    \* _map_tarurl_to_local: the argument
    local,      \* _map_tarurl_to_local: the value returned
    request,    \* the request a handler was called with
    response,   \* the handler's response
    phase,      \* the process: "startup" (module load) or "serving"
    run,        \* how many times the process has been started
    pc,         \* update_app_response_md5s: where it stands
    original,   \* update_app_response_md5s: the text read
    cb,         \* update_app_response_md5s: the callback name parsed
    data,       \* update_app_response_md5s: the document parsed
    changed,    \* update_app_response_md5s: the dirty flag
    idx,        \* update_app_response_md5s: the app entry the loop is at
    exc,        \* the exception in flight, "none" if none
    new_text,   \* update_app_response_md5s: the text to write
    failures,   \* history: the I/O calls that failed in this run
    failedAt,   \* history: the entries whose digest failed (0: top level)
    removeFailed, \* history: an os.remove of the temp file has failed
    prevClean,  \* history: the run before this one met no I/O failure
    startText,  \* history: the metadata file when this run began
    observed    \* what a concurrent load_text last read

hvars == <<disk, files, tar_url, local, request, response>>

rvars == <<phase, run, pc, original, cb, data, changed, idx, exc, new_text,
           failures, failedAt, removeFailed, prevClean, startText, observed>>

vars == <<hvars, rvars>>

(***************************************************************************)
(* Bounds of the model.                                                    *)
(***************************************************************************)
MaxUrlLen == 4

MaxContentLen == 5

MaxModuleLen == 2

MaxStemLen == 2

MaxIconStemLen == 4

MaxApps == 2

MaxRuns == 2

(***************************************************************************)
(* Text primitives (Python str methods).                                   *)
(***************************************************************************)
None == <<"<None>">>

WS == {" ", "\n"}

Min(a, b) == IF a < b THEN a ELSE b

Drop(s, n) == SubSeq(s, n + 1, Len(s))

Take(s, n) == SubSeq(s, 1, n)

StartsWith(s, p) == Len(p) <= Len(s) /\ Take(s, Len(p)) = p

EndsWith(s, p) == Len(p) <= Len(s) /\ Drop(s, Len(s) - Len(p)) = p

Contains(s, p) == \E i \in 0..(Len(s) - Len(p)) : SubSeq(s, i + 1, i + Len(p)) = p

\* str.find(c): the first index (1-based) of character c, 0 if absent
Find(s, c) == IF \E i \in 1..Len(s) : s[i] = c
              THEN CHOOSE i \in 1..Len(s) : s[i] = c /\ \A j \in 1..(i - 1) : s[j] # c
              ELSE 0

RECURSIVE LStripSet(_, _)
LStripSet(s, cs) == IF s # <<>> /\ s[1] \in cs THEN LStripSet(Tail(s), cs) ELSE s

RECURSIVE RStripSet(_, _)
RStripSet(s, cs) == IF s # <<>> /\ s[Len(s)] \in cs
                    THEN RStripSet(Take(s, Len(s) - 1), cs) ELSE s

StripSet(s, cs) == RStripSet(LStripSet(s, cs), cs)

\* every text over alphabet cs of length at most n
RECURSIVE TextsOfLen(_, _)
TextsOfLen(cs, n) == IF n = 0 THEN {<<>>}
                     ELSE {Append(t, c) : t \in TextsOfLen(cs, n - 1), c \in cs}

TextsUpTo(cs, n) == UNION {TextsOfLen(cs, k) : k \in 0..n}

(***************************************************************************)
(* Paths (posixpath) and the file system.                                  *)
(***************************************************************************)
SEP == "/"

\* str.split('/')
RECURSIVE SplitSep(_)
SplitSep(s) == LET i == Find(s, SEP) IN
               IF i = 0 THEN <<s>> ELSE <<Take(s, i - 1)>> \o SplitSep(Drop(s, i))

RECURSIVE JoinSep(_)
JoinSep(segs) == IF segs = <<>> THEN <<>>
                 ELSE IF Len(segs) = 1 THEN segs[1]
                 ELSE segs[1] \o <<SEP>> \o JoinSep(Tail(segs))

\* os.path.join(a, b)
PathJoin(a, b) == IF StartsWith(b, <<SEP>>) THEN b
                  ELSE IF a = <<>> \/ EndsWith(a, <<SEP>>) THEN a \o b
                  ELSE a \o <<SEP>> \o b

\* os.path.basename(p): what follows the last '/'
Basename(p) == LET segs == SplitSep(p) IN segs[Len(segs)]

DOTDOT == <<".", ".">>

\* posixpath.normpath: the component loop
RECURSIVE NormComps(_, _, _)
NormComps(comps, acc, rooted) ==
    IF comps = <<>> THEN acc
    ELSE LET c == Head(comps) IN
         IF c = <<>> \/ c = <<".">> THEN NormComps(Tail(comps), acc, rooted)
         ELSE IF c # DOTDOT \/ (~rooted /\ acc = <<>>)
                 \/ (acc # <<>> /\ acc[Len(acc)] = DOTDOT)
              THEN NormComps(Tail(comps), Append(acc, c), rooted)
         ELSE IF acc # <<>>
              THEN NormComps(Tail(comps), Take(acc, Len(acc) - 1), rooted)
         ELSE NormComps(Tail(comps), acc, rooted)

\* posixpath.normpath(p)
Normpath(p) ==
    IF p = <<>> THEN <<".">>
    ELSE LET slashes == IF ~StartsWith(p, <<SEP>>) THEN 0
                        ELSE IF StartsWith(p, <<SEP, SEP>>) /\ ~StartsWith(p, <<SEP, SEP, SEP>>)
                             THEN 2 ELSE 1
             body == JoinSep(NormComps(SplitSep(p), <<>>, slashes > 0))
             out  == (IF slashes = 2 THEN <<SEP, SEP>>
                      ELSE IF slashes = 1 THEN <<SEP>> ELSE <<>>) \o body
         IN IF out = <<>> THEN <<".">> ELSE out

BASE == <<"/", "B">>

FILE_DIR == PathJoin(BASE, <<"f">>)

PICTURE_DIR == PathJoin(BASE, <<"p">>)

\* a directory exists where a regular file lies below it
IsDir(d) == \E f \in disk : Len(f) > Len(d) /\ Take(f, Len(d)) = d

\* The kernel's path walk from '/': <<ok, directory reached>>.  A component is
\* looked up only in an existing directory; '..' of the root is the root.
RECURSIVE Walk(_, _)
Walk(comps, cur) ==
    IF comps = <<>> THEN <<TRUE, cur>>
    ELSE IF ~(cur = <<>> \/ IsDir(cur)) THEN <<FALSE, cur>>
    ELSE LET c == Head(comps) IN
         IF c = <<>> \/ c = <<".">> THEN Walk(Tail(comps), cur)
         ELSE IF c = DOTDOT
              THEN Walk(Tail(comps), IF cur = <<>> THEN cur ELSE Take(cur, Len(cur) - 1))
         ELSE Walk(Tail(comps), Append(cur, c))

\* the file an absolute path names, None when the walk fails
Resolve(p) == LET w == Walk(SplitSep(p), <<>>) IN IF w[1] THEN w[2] ELSE None

\* os.path.isfile(p) for an absolute p: a trailing '/' or '/.' asks for a directory
IsFile(p) == /\ Resolve(p) \in disk
             /\ ~EndsWith(p, <<SEP>>)
             /\ ~EndsWith(p, <<SEP, ".">>)

(***************************************************************************)
(* _map_tarurl_to_local                                                    *)
(***************************************************************************)
\* line 66 with the guard dropped
NoTraversalGuard(u) == FALSE

\* line 66: the reference is refused outright
TraversalGuard(u) == \/ Contains(u, DOTDOT)
                     \/ StartsWith(u, <<SEP>>)
                     \/ Contains(u, <<SEP, SEP>>)

MapTarurlToLocal(u) ==
    IF TraversalGuard(u) THEN None
    ELSE LET rel == LStripSet(Normpath(StripSet(u, {SEP})), {SEP})
             p1  == PathJoin(FILE_DIR, rel)
             p2  == PathJoin(FILE_DIR, Basename(rel))
         IN IF StartsWith(rel, DOTDOT) \/ Contains(rel, <<SEP>> \o DOTDOT) THEN None
            ELSE IF IsFile(p1) /\ StartsWith(p1, FILE_DIR) THEN p1
            ELSE IF IsFile(p2) /\ StartsWith(p2, FILE_DIR) THEN p2
            ELSE None

(***************************************************************************)
(* The storage the server reads: the archive directory, a module           *)
(* directory in it, and files outside the storage root.                    *)
(***************************************************************************)
Seg(p) == Tail(SplitSep(p))

FlatA == Seg(FILE_DIR) \o << <<"a">> >>

ModA == Seg(FILE_DIR) \o << <<"b">>, <<"a">> >>

OutA == Seg(BASE) \o << <<"a">> >>

LocatorDisks == SUBSET {FlatA, ModA, OutA}

UrlChars == {"a", "b", ".", "/"}

NoRequest == [op |-> "none"]

NoResponse == [status |-> 0, body |-> <<>>, path |-> None]

Missing == <<"<missing>">>

NoFiles == [n \in {"app", "push", "tmp"} |-> Missing]

NoText == <<"<unset>">>

NoData == [t |-> "none", s |-> "", m |-> <<>>]

\* the process is up and update_app_response_md5s is not running
Serving == /\ phase = "serving"
           /\ run = 1
           /\ pc = "done"
           /\ original = NoText
           /\ cb = <<>>
           /\ data = NoData
           /\ changed = FALSE
           /\ idx = 0
           /\ exc = "none"
           /\ new_text = NoText
           /\ failures = {}
           /\ failedAt = {}
           /\ removeFailed = FALSE
           /\ prevClean = FALSE
           /\ startText = NoText
           /\ observed = NoText

InitLocator == /\ Serving
               /\ disk \in LocatorDisks
               /\ files = NoFiles
               /\ tar_url \in TextsUpTo(UrlChars, MaxUrlLen)
               /\ local = <<"<pending>">>
               /\ request = NoRequest
               /\ response = NoResponse

Locate == /\ local = <<"<pending>">>
          /\ local' = MapTarurlToLocal(tar_url)
          /\ UNCHANGED <<disk, files, tar_url, request, response, rvars>>

NextLocator == Locate

SpecLocator == InitLocator /\ [][NextLocator]_vars

\* the path lies below the storage root once the kernel has walked it
UnderRoot(p, root) == LET r == Resolve(p) IN
                      r # None /\ Len(r) > Len(Seg(root)) /\ Take(r, Len(Seg(root))) = Seg(root)

\* C1: a reference holding '..', a leading '/' or '//' is never resolved, whatever
\* the disk holds, and a resolved reference names an existing regular file under
\* the storage root
C1_LocatorSafe ==
    local # <<"<pending>">> =>
        /\ (Contains(tar_url, DOTDOT) \/ StartsWith(tar_url, <<SEP>>)
              \/ Contains(tar_url, <<SEP, SEP>>)) => local = None
        /\ local # None => (Resolve(local) \in disk /\ UnderRoot(local, FILE_DIR))

C1_Witness_Refused ==
    /\ local = None
    /\ tar_url = <<"/", "a">>
    /\ FlatA \in disk

(***************************************************************************)
(* The feeds: load_text, make_jsonp, reply_from, app_js, push_js           *)
(***************************************************************************)
\* the characters of the model that the class [0-9A-Za-z_\.\[\]\$] holds
IdentChars == {"a", "b", "c", "x", "t", "r", "g", "z", "n", "p", "P", "N", "G",
               "_", ".", "[", "]", "$"}

AllIdent(s) == \A i \in 1..Len(s) : s[i] \in IdentChars

\* a pattern's closing '$': the end of the text, or just before a final newline
ChopFinalNewline(s) == IF s # <<>> /\ s[Len(s)] = "\n" THEN {s, Take(s, Len(s) - 1)} ELSE {s}

\* CB_SAFE.match(s)
CbSafe(s) == \E t \in ChopFinalNewline(s) : t # <<>> /\ AllIdent(t)

\* JSONP_HEAD.match(s): the length of the match '^\s*(ident+)\s*\(' , 0 for no match
HeadLen(s) ==
    LET a == Len(s) - Len(LStripSet(s, WS))
        b == Len(LStripSet(s, WS)) - Len(LStripSet(LStripSet(s, WS), IdentChars))
        r == LStripSet(LStripSet(LStripSet(s, WS), IdentChars), WS)
    IN IF b > 0 /\ r # <<>> /\ r[1] = "(" THEN Len(s) - Len(r) + 1 ELSE 0

\* JSONP_HEAD.match(s).group(1)
HeadName(s) ==
    LET t == LStripSet(s, WS) IN Take(t, Len(t) - Len(LStripSet(t, IdentChars)))

CLOSE == <<")", ";">>

\* make_jsonp that wraps whatever it is given
MakeJsonpAlwaysWrap(content, callback) ==
    IF callback # <<>> THEN callback \o <<"(">> \o content \o CLOSE ELSE content

MakeJsonp(content, callback) ==
    IF HeadLen(content) > 0
    THEN LET c == IF callback # <<>>
                  THEN callback \o <<"(">> \o Drop(content, HeadLen(content))
                  ELSE content
         IN IF EndsWith(RStripSet(c, WS), CLOSE) THEN c ELSE RStripSet(c, WS) \o CLOSE
    ELSE IF callback # <<>> THEN callback \o <<"(">> \o content \o CLOSE
    ELSE content

INVALID_CALLBACK == <<"/", "*", " ", "i", "n", "v", "a", "l", "i", "d", " ",
                      "c", "a", "l", "l", "b", "a", "c", "k", " ", "*", "/">>

Absent == <<"<absent>">>

\* the callback check of reply_from with the check dropped
CallbackRefusedNever(name) == FALSE

\* line 42
CallbackRefused(name) == name # <<>> /\ ~CbSafe(name)

\* reply_from(file_name) for the query's callback argument (Absent: no argument)
ReplyFrom(file_name, arg) ==
    IF files[file_name] = Missing THEN [status |-> 404, body |-> <<>>, path |-> None]
    ELSE LET raw  == files[file_name]
             name == StripSet(IF arg = Absent THEN <<>> ELSE arg, WS)
         IN IF CallbackRefused(name)
            THEN [status |-> 400, body |-> INVALID_CALLBACK, path |-> None]
            ELSE [status |-> 200, body |-> MakeJsonp(raw, name), path |-> None]

ContentChars == {"c", " ", "(", ")", ";"}

Contents == TextsUpTo(ContentChars, MaxContentLen)

Callbacks == {Absent, <<>>, <<"x">>, <<"x", "$">>, <<" ", "x", "\n">>, <<" ">>,
              <<";">>, <<"x", ";">>, <<"x", " ", "x">>}

InitFeed == /\ Serving
            /\ disk = {}
            /\ \E t \in Contents \cup {Missing}, n \in {"app", "push"} :
                   files = [NoFiles EXCEPT ![n] = t]
            /\ tar_url = <<>>
            /\ local = None
            /\ request = NoRequest
            /\ response = NoResponse

\* route /softcenter/app.json.js
app_js == /\ phase = "serving"
          /\ request = NoRequest
          /\ \E arg \in Callbacks :
                /\ request' = [op |-> "app_js", callback |-> arg]
                /\ response' = ReplyFrom("app", arg)
          /\ UNCHANGED <<disk, files, tar_url, local, rvars>>

\* route /softcenter/push_message.json.js
push_js == /\ phase = "serving"
           /\ request = NoRequest
           /\ \E arg \in Callbacks :
                 /\ request' = [op |-> "push_js", callback |-> arg]
                 /\ response' = ReplyFrom("push", arg)
           /\ UNCHANGED <<disk, files, tar_url, local, rvars>>

NextFeed == app_js \/ push_js

SpecFeed == InitFeed /\ [][NextFeed]_vars

FeedFile == IF request.op = "app_js" THEN files["app"] ELSE files["push"]

Trimmed(arg) == StripSet(IF arg = Absent THEN <<>> ELSE arg, WS)

FeedAnswered == request.op \in {"app_js", "push_js"} /\ FeedFile # Missing

\* C2: for a feed whose file exists, a callback that after trimming is non-empty
\* and holds a character outside [0-9A-Za-z_.[]$] is answered 400 with the fixed
\* body; an absent, empty or valid callback is answered 200 with a body that
\* holds the file's content from the end of its envelope head on (trailing
\* white space apart)
C2_CallbackValidation ==
    FeedAnswered =>
        LET name == Trimmed(request.callback) IN
        IF name # <<>> /\ \E i \in 1..Len(name) : name[i] \notin IdentChars
        THEN response.status = 400 /\ response.body = INVALID_CALLBACK
        ELSE /\ response.status = 200
             /\ Contains(response.body, RStripSet(Drop(FeedFile, HeadLen(FeedFile)), WS))

C2_Witness_BadCallback ==
    /\ FeedAnswered
    /\ request.callback = <<"x", ";">>
    /\ FeedFile = <<"c", "(", ")", ";">>
    /\ response.status = 400

\* the text make_jsonp was given and the callback it was given
JsonpApplied == FeedAnswered /\ response.status = 200

\* the content with only the identifier of its envelope head replaced
OnlyNameReplaced(content, name) ==
    LET lead == Len(content) - Len(LStripSet(content, WS))
    IN Take(content, lead) \o name \o Drop(content, lead + Len(HeadName(content)))

NotFound == [status |-> 404, body |-> <<>>, path |-> None]

\* werkzeug's safe_join(directory, name), None when the name is refused
SafeJoin(dir, name) ==
    LET n == IF name = <<>> THEN name ELSE Normpath(name)
    IN IF StartsWith(n, <<SEP>>) \/ n = DOTDOT \/ StartsWith(n, DOTDOT \o <<SEP>>)
       THEN None
       ELSE PathJoin(dir, n)

\* send_from_directory(dir, name): the file served, or 404
SendFromDirectory(dir, name) ==
    LET p == SafeJoin(dir, name)
    IN IF p # None /\ IsFile(p) THEN [status |-> 200, body |-> <<>>, path |-> p]
       ELSE NotFound

AlnumChars == {"a", "b", "c", "x", "t", "r", "g", "z", "n", "p", "P", "N", "G", "s", "h"}

NameChars == AlnumChars \cup {"_", "-"}

TARGZ == <<".", "t", "a", "r", ".", "g", "z">>

\* '^[a-zA-Z0-9][a-zA-Z0-9_\-]*' over the whole of s
LeadingRule(s) == /\ s # <<>>
                  /\ s[1] \in AlnumChars
                  /\ \A i \in 2..Len(s) : s[i] \in NameChars

\* SAFE_MODULE.match(s)
SafeModule(s) == \E t \in ChopFinalNewline(s) : LeadingRule(t)

\* SAFE_FILENAME.match(s)
SafeFilename(s) == \E t \in ChopFinalNewline(s) :
                       EndsWith(t, TARGZ) /\ LeadingRule(Take(t, Len(t) - Len(TARGZ)))

\* serve_file(module, filename)
ServeFile(module, filename) ==
    IF ~(SafeModule(module) /\ SafeFilename(filename)) THEN NotFound
    ELSE LET name == Basename(filename)
             direct_path == PathJoin(FILE_DIR, name)
             module_dir  == PathJoin(FILE_DIR, module)
             module_path == PathJoin(module_dir, name)
         IN IF IsFile(direct_path) /\ StartsWith(direct_path, FILE_DIR)
            THEN SendFromDirectory(FILE_DIR, name)
            ELSE IF ~StartsWith(module_dir, FILE_DIR) THEN NotFound
            ELSE IF IsFile(module_path) /\ StartsWith(module_path, FILE_DIR)
            THEN SendFromDirectory(module_dir, name)
            ELSE NotFound

ArchiveName == <<"a">> \o TARGZ

FlatTar == Seg(FILE_DIR) \o <<ArchiveName>>

ModTar == Seg(FILE_DIR) \o << <<"b">>, ArchiveName >>

FlatTarNewline == Seg(FILE_DIR) \o <<ArchiveName \o <<"\n">> >>

FlatScript == Seg(FILE_DIR) \o << <<"a", ".", "s", "h">> >>

ArchiveDisks == SUBSET {FlatTar, ModTar, FlatTarNewline, FlatScript}

Modules == TextsUpTo({"b", "-", "\n"}, MaxModuleLen)

Filenames == {stem \o ext \o tl :
                 stem \in TextsUpTo({"a", "-", ".", "/"}, MaxStemLen),
                 ext \in {TARGZ, <<".", "s", "h">>, <<".", "t", "a", "r">>},
                 tl \in {<<>>, <<"\n">>}}

InitArchive == /\ Serving
               /\ disk \in ArchiveDisks
               /\ files = NoFiles
               /\ tar_url = <<>>
               /\ local = None
               /\ request = NoRequest
               /\ response = NoResponse

\* route /<module>/<filename>
serve_file == /\ phase = "serving"
              /\ request = NoRequest
              /\ \E m \in Modules, f \in Filenames :
                    /\ request' = [op |-> "serve_file", module |-> m, filename |-> f]
                    /\ response' = ServeFile(m, f)
              /\ UNCHANGED <<disk, files, tar_url, local, rvars>>

NextArchive == serve_file

SpecArchive == InitArchive /\ [][NextArchive]_vars

\* the file stored at dir/name, name taken as one path segment
Stored(dir, name) == (Seg(dir) \o <<name>>) \in disk

\* the outcome the archive rule prescribes for a valid module and file name
ArchiveRule(m, f) ==
    IF Stored(FILE_DIR, f)
    THEN response.status = 200 /\ Resolve(response.path) = Seg(FILE_DIR) \o <<f>>
    ELSE IF (Seg(FILE_DIR) \o <<m, f>>) \in disk
    THEN response.status = 200 /\ Resolve(response.path) = Seg(FILE_DIR) \o <<m, f>>
    ELSE response.status = 404

\* C3: a module that is not 'alphanumeric, then alphanumerics, underscore or
\* hyphen', or a file name that is not of that form followed by the literal
\* suffix '.tar.gz', is answered 404 whatever the disk holds; otherwise the flat
\* file is served if it exists, else the module's file if it exists, else 404;
\* and a served file lies under the storage root
C3_ArchiveRule ==
    request.op = "serve_file" =>
        /\ IF LeadingRule(request.module)
               /\ EndsWith(request.filename, TARGZ)
               /\ LeadingRule(Take(request.filename, Len(request.filename) - Len(TARGZ)))
           THEN ArchiveRule(request.module, request.filename)
           ELSE response.status = 404
        /\ response.status = 200 => UnderRoot(response.path, FILE_DIR)

\* C3 for the requests that hold no line feed: there the claim holds
C3_ArchiveRuleNoNewline ==
    (/\ request.op = "serve_file"
     /\ ~Contains(request.module, <<"\n">>)
     /\ ~Contains(request.filename, <<"\n">>)) => C3_ArchiveRule

C3_Witness_FlatFirst ==
    /\ request.op = "serve_file"
    /\ request.module = <<"b">>
    /\ request.filename = ArchiveName
    /\ {FlatTar, ModTar} \subseteq disk
    /\ response.path = PathJoin(FILE_DIR, ArchiveName)

\* str.lower() on the characters of the model
LowerChar(c) == IF c = "P" THEN "p" ELSE IF c = "N" THEN "n" ELSE IF c = "G" THEN "g" ELSE c

Lower(s) == [i \in 1..Len(s) |-> LowerChar(s[i])]

\* the last index of character c in s, 0 if absent (str.rfind)
RFind(s, c) == IF \E i \in 1..Len(s) : s[i] = c
               THEN CHOOSE i \in 1..Len(s) : s[i] = c /\ \A j \in (i + 1)..Len(s) : s[j] # c
               ELSE 0

\* os.path.splitext(p)[1]: from the last dot on, unless only dots precede it
SplitextExt(p) ==
    LET sepIndex == RFind(p, SEP)
        dotIndex == RFind(p, ".")
    IN IF dotIndex > sepIndex /\ \E i \in (sepIndex + 1)..(dotIndex - 1) : p[i] # "."
       THEN Drop(p, dotIndex - 1)
       ELSE <<>>

PNG == <<".", "p", "n", "g">>

\* line 202 without the basename
KeepDirectories(filename) == filename

\* line 202
StripDirectories(filename) == Basename(filename)

\* softcenter_res(filename)
SoftcenterRes(filename) ==
    LET name == StripDirectories(filename)
    IN IF Lower(SplitextExt(name)) # PNG THEN NotFound
       ELSE IF ~IsFile(PathJoin(PICTURE_DIR, name)) THEN NotFound
       ELSE SendFromDirectory(PICTURE_DIR, name)

IconName == <<"a">> \o PNG

Icon == Seg(PICTURE_DIR) \o <<IconName>>

IconUpper == Seg(PICTURE_DIR) \o << <<"a", ".", "P", "N", "G">> >>

IconNested == Seg(PICTURE_DIR) \o << <<"a">>, IconName >>

IconScript == Seg(PICTURE_DIR) \o << <<"a", ".", "s", "h">> >>

OutsidePng == Seg(BASE) \o <<IconName>>

IconDisks == SUBSET {Icon, IconUpper, IconNested, IconScript, OutsidePng}

IconRequests == {stem \o ext :
                    stem \in TextsUpTo({"a", ".", "/"}, MaxIconStemLen),
                    ext \in {PNG, <<".", "P", "N", "G">>, <<".", "s", "h">>,
                             PNG \o <<"\n">>, <<>>}} \ {<<>>}

InitIcon == /\ Serving
            /\ disk \in IconDisks
            /\ files = NoFiles
            /\ tar_url = <<>>
            /\ local = None
            /\ request = NoRequest
            /\ response = NoResponse

\* route /softcenter/softcenter/res/<path:filename>
softcenter_res == /\ phase = "serving"
                  /\ request = NoRequest
                  /\ \E f \in IconRequests :
                        /\ request' = [op |-> "softcenter_res", filename |-> f]
                        /\ response' = SoftcenterRes(f)
                  /\ UNCHANGED <<disk, files, tar_url, local, rvars>>

NextIcon == softcenter_res

SpecIcon == InitIcon /\ [][NextIcon]_vars

\* the served file lies directly in the icon directory and is named *.png
ServedIsIcon ==
    LET r == Resolve(response.path)
    IN /\ r \in disk
       /\ Len(r) = Len(Seg(PICTURE_DIR)) + 1
       /\ Take(r, Len(Seg(PICTURE_DIR))) = Seg(PICTURE_DIR)
       /\ EndsWith(Lower(r[Len(r)]), PNG)

K_APPS == "\"apps\""

K_TAR == "\"tar_url\""

K_MD5 == "\"md5\""

K_NAME == "\"name\""

V_A == "\"a\""

V_BA == "\"b/a\""

V_Q == "\"q\""

V_STALE == "\"stale\""

V_D1 == "\"d1\""

V_D2 == "\"d2\""

V_N == "\"n\""

V_ESC_N == "\"\\u006e\""

V_EMPTY == "\"\""

StrToks == {K_APPS, K_TAR, K_MD5, K_NAME, V_A, V_BA, V_Q, V_STALE, V_D1, V_D2,
            V_N, V_ESC_N, V_EMPTY}

\* the literal json.dumps writes for the string a literal decodes to
Decode(tok) == IF tok = V_ESC_N THEN V_N ELSE tok

\* the characters of the string a literal stands for
Unquote(tok) ==
    CASE tok = V_A -> <<"a">>
      [] tok = V_BA -> <<"b", "/", "a">>
      [] tok = V_Q -> <<"q">>
      [] tok = V_N -> <<"n">>
      [] tok = V_EMPTY -> <<>>
      [] OTHER -> <<"s", "t", "r">>

Str(s) == [t |-> "str", s |-> s, m |-> <<>>]

Obj(m) == [t |-> "obj", s |-> "", m |-> m]

Arr(e) == [t |-> "arr", s |-> "", m |-> e]

JsonNone == [t |-> "none", s |-> "", m |-> <<>>]

HasKey(o, k) == \E i \in 1..Len(o.m) : o.m[i].k = k

\* dict.get(k), JsonNone when the key is absent
Get(o, k) == IF HasKey(o, k)
             THEN o.m[CHOOSE i \in 1..Len(o.m) : o.m[i].k = k].v
             ELSE JsonNone

\* dict[k] = v on the members of a dict: in place, or appended
PutMember(m, k, v) ==
    IF \E i \in 1..Len(m) : m[i].k = k
    THEN [i \in 1..Len(m) |-> IF m[i].k = k THEN [k |-> k, v |-> v] ELSE m[i]]
    ELSE Append(m, [k |-> k, v |-> v])

Put(o, k, v) == Obj(PutMember(o.m, k, v))

ParseFail == [ok |-> FALSE, v |-> JsonNone, rest |-> <<>>]

RECURSIVE ParseValue(_), ParseMembers(_, _), ParseElems(_, _)
\* the JSON decoder: one value off the front of the text
ParseValue(text) ==
    LET ts == LStripSet(text, WS) IN
    IF ts = <<>> THEN ParseFail
    ELSE IF ts[1] \in StrToks
         THEN [ok |-> TRUE, v |-> Str(Decode(ts[1])), rest |-> Tail(ts)]
    ELSE IF ts[1] = "{"
         THEN LET r == LStripSet(Tail(ts), WS) IN
              IF r # <<>> /\ r[1] = "}"
              THEN [ok |-> TRUE, v |-> Obj(<<>>), rest |-> Tail(r)]
              ELSE ParseMembers(r, <<>>)
    ELSE IF ts[1] = "["
         THEN LET r == LStripSet(Tail(ts), WS) IN
              IF r # <<>> /\ r[1] = "]"
              THEN [ok |-> TRUE, v |-> Arr(<<>>), rest |-> Tail(r)]
              ELSE ParseElems(r, <<>>)
    ELSE ParseFail

ParseMembers(ts, acc) ==
    IF ts = <<>> \/ ts[1] \notin StrToks THEN ParseFail
    ELSE LET r1 == LStripSet(Tail(ts), WS) IN
         IF r1 = <<>> \/ r1[1] # ":" THEN ParseFail
         ELSE LET pv == ParseValue(Tail(r1)) IN
              IF ~pv.ok THEN ParseFail
              ELSE LET r2   == LStripSet(pv.rest, WS)
                       acc2 == PutMember(acc, Decode(ts[1]), pv.v)
                   IN IF r2 = <<>> THEN ParseFail
                      ELSE IF r2[1] = "}"
                           THEN [ok |-> TRUE, v |-> Obj(acc2), rest |-> Tail(r2)]
                      ELSE IF r2[1] = ","
                           THEN ParseMembers(LStripSet(Tail(r2), WS), acc2)
                      ELSE ParseFail

ParseElems(ts, acc) ==
    LET pv == ParseValue(ts) IN
    IF ~pv.ok THEN ParseFail
    ELSE LET r2   == LStripSet(pv.rest, WS)
             acc2 == Append(acc, pv.v)
         IN IF r2 = <<>> THEN ParseFail
            ELSE IF r2[1] = "]"
                 THEN [ok |-> TRUE, v |-> Arr(acc2), rest |-> Tail(r2)]
            ELSE IF r2[1] = ","
                 THEN ParseElems(Tail(r2), acc2)
            ELSE ParseFail

\* json.loads(payload): ok is FALSE where it raises
JsonLoads(payload) ==
    LET pv == ParseValue(payload) IN
    IF pv.ok /\ LStripSet(pv.rest, WS) = <<>>
    THEN [ok |-> TRUE, v |-> pv.v]
    ELSE [ok |-> FALSE, v |-> JsonNone]

RECURSIVE DumpValue(_), DumpMembers(_), DumpElems(_)
\* json.dumps(v, ensure_ascii=False, separators=(',', ':'))
DumpValue(v) ==
    IF v.t = "str" THEN <<v.s>>
    ELSE IF v.t = "obj" THEN <<"{">> \o DumpMembers(v.m) \o <<"}">>
    ELSE <<"[">> \o DumpElems(v.m) \o <<"]">>

DumpMembers(m) ==
    IF m = <<>> THEN <<>>
    ELSE <<m[1].k, ":">> \o DumpValue(m[1].v)
         \o (IF Len(m) > 1 THEN <<",">> \o DumpMembers(Tail(m)) ELSE <<>>)

DumpElems(e) ==
    IF e = <<>> THEN <<>>
    ELSE DumpValue(e[1]) \o (IF Len(e) > 1 THEN <<",">> \o DumpElems(Tail(e)) ELSE <<>>)

\* _parse_jsonp(text): cb is <<>> where the source has None
ParseJsonp(text) ==
    LET payload ==
            IF HeadLen(text) > 0
            THEN LET p == StripSet(Drop(text, Find(text, "(")), WS)
                 IN IF EndsWith(p, CLOSE) THEN RStripSet(Take(p, Len(p) - 2), WS) ELSE p
            ELSE text
        loaded == JsonLoads(payload)
    IN [ok   |-> loaded.ok,
        cb   |-> IF HeadLen(text) > 0 THEN HeadName(text) ELSE <<>>,
        data |-> loaded.v]

\* _dump_with_jsonp that writes the payload without its envelope
DumpWithoutJsonp(name, doc) == DumpValue(doc)

\* _dump_with_jsonp(name, doc)
DumpWithJsonp(name, doc) ==
    IF name # <<>> THEN name \o <<"(">> \o DumpValue(doc) \o CLOSE ELSE DumpValue(doc)

(***************************************************************************)
(* update_app_response_md5s, run while the module loads                    *)
(***************************************************************************)
\* the md5 of each archive's bytes, as the JSON literal of its hex digest
DigestOf(f) == IF f = ModA THEN V_D2 ELSE V_D1

\* _md5_of(path) where reading the file succeeds
Md5Of(path) == DigestOf(Resolve(path))

\* line 141 with the comparison dropped: every digest counts as a change
DiffersAlways(stored, new_md5) == TRUE

\* lines 141 and 156: the stored md5 is not the fresh digest
Differs(stored, new_md5) == stored # Str(new_md5)

\* the values 'for app_item in apps' yields: the elements of a list, the keys
\* of a dict, the characters of a string
Items(doc) ==
    LET apps == IF HasKey(doc, K_APPS) THEN Get(doc, K_APPS) ELSE Arr(<<>>)
    IN IF apps.t = "arr" THEN apps.m
       ELSE IF apps.t = "obj" THEN [i \in 1..Len(apps.m) |-> Str(apps.m[i].k)]
       ELSE [i \in 1..Len(Unquote(apps.s)) |-> Str(V_N)]

\* What lines 133-138 (and 150-153) make of an entry: "raise" (.get or
\* .startswith of a value that has none), "skip" (continue), or "digest"
EntryKind(item) ==
    IF item.t # "obj" THEN "raise"
    ELSE LET tar == Get(item, K_TAR) IN
         IF tar.t = "none" \/ (tar.t = "str" /\ Unquote(tar.s) = <<>>)
            \/ (tar.t # "str" /\ tar.m = <<>>) THEN "skip"
         ELSE IF tar.t = "arr" THEN "raise"
         ELSE IF tar.t = "obj" THEN "raise"
         ELSE IF MapTarurlToLocal(Unquote(tar.s)) = None THEN "skip"
         ELSE "digest"

EntryLocal(item) == MapTarurlToLocal(Unquote(Get(item, K_TAR).s))

\* lines 140-144: the entry once its digest is known
WithDigest(item) ==
    IF Differs(Get(item, K_MD5), Md5Of(EntryLocal(item)))
    THEN Put(item, K_MD5, Str(Md5Of(EntryLocal(item))))
    ELSE item

\* the document with entry i of its apps list replaced
WithItem(doc, i, item) ==
    Put(doc, K_APPS, Arr([Items(doc) EXCEPT ![i] = item]))

hist == <<failures, failedAt, removeFailed, prevClean, startText, observed>>

\* lines 112-114
Start ==
    /\ phase = "startup" /\ pc = "start"
    /\ pc' = IF files["app"] = Missing THEN "done" ELSE "read"
    /\ UNCHANGED <<hvars, phase, run, original, cb, data, changed, idx, exc, new_text, hist>>

\* lines 116-120: load_text, whose failure ends the refresh
Read ==
    /\ phase = "startup" /\ pc = "read"
    /\ \/ /\ original' = files["app"]
          /\ pc' = "parse"
          /\ UNCHANGED failures
       \/ /\ failures' = failures \cup {"read"}
          /\ pc' = "done"
          /\ UNCHANGED original
    /\ UNCHANGED <<hvars, phase, run, cb, data, changed, idx, exc, new_text,
                   failedAt, removeFailed, prevClean, startText, observed>>

\* lines 122-131: _parse_jsonp, whose failure ends the refresh, and data.get
Parse ==
    /\ phase = "startup" /\ pc = "parse"
    /\ LET parsed == ParseJsonp(original) IN
       IF ~parsed.ok
       THEN pc' = "done" /\ UNCHANGED <<cb, data, exc, idx>>
       ELSE /\ cb' = parsed.cb
            /\ data' = parsed.data
            /\ IF parsed.data.t # "obj"
               THEN pc' = "raised" /\ exc' = "AttributeError" /\ UNCHANGED idx
               ELSE /\ idx' = 1
                    /\ pc' = IF Items(parsed.data) = <<>> THEN "top" ELSE "apps"
                    /\ UNCHANGED exc
    /\ UNCHANGED <<hvars, phase, run, original, changed, new_text, hist>>

\* lines 132-147: one turn of the loop over apps
ProcessApp ==
    /\ phase = "startup" /\ pc = "apps"
    /\ LET item == Items(data)[idx]
           kind == EntryKind(item)
           next == IF idx = Len(Items(data)) THEN "top" ELSE "apps"
       IN \/ /\ kind = "raise"
             /\ pc' = "raised" /\ exc' = "AttributeError"
             /\ UNCHANGED <<data, changed, idx, failedAt>>
          \/ /\ kind = "skip"
             /\ pc' = next /\ idx' = idx + 1
             /\ UNCHANGED <<data, changed, exc, failedAt>>
          \/ /\ kind = "digest"
             /\ data' = WithItem(data, idx, WithDigest(item))
             /\ changed' = (changed \/ Differs(Get(item, K_MD5), Md5Of(EntryLocal(item))))
             /\ pc' = next /\ idx' = idx + 1
             /\ UNCHANGED <<exc, failedAt>>
          \/ /\ kind = "digest"
             /\ failedAt' = failedAt \cup {idx}
             /\ pc' = next /\ idx' = idx + 1
             /\ UNCHANGED <<data, changed, exc>>
    /\ UNCHANGED <<hvars, phase, run, original, cb, new_text,
                   failures, removeFailed, prevClean, startText, observed>>

\* lines 149-168: the top-level pair, the dirty check and _dump_with_jsonp
ProcessTop ==
    /\ phase = "startup" /\ pc = "top"
    /\ LET kind == EntryKind(data) IN
       \/ /\ kind = "raise"
          /\ pc' = "raised" /\ exc' = "AttributeError"
          /\ UNCHANGED <<data, changed, new_text, failedAt>>
       \/ /\ kind = "skip"
          /\ pc' = IF changed THEN "open" ELSE "done"
          /\ new_text' = IF changed THEN DumpWithJsonp(cb, data) ELSE new_text
          /\ UNCHANGED <<data, changed, exc, failedAt>>
       \/ /\ kind = "digest"
          /\ data' = WithDigest(data)
          /\ changed' = (changed \/ Differs(Get(data, K_MD5), Md5Of(EntryLocal(data))))
          /\ pc' = IF changed' THEN "open" ELSE "done"
          /\ new_text' = IF changed' THEN DumpWithJsonp(cb, data') ELSE new_text
          /\ UNCHANGED <<exc, failedAt>>
       \/ /\ kind = "digest"
          /\ failedAt' = failedAt \cup {0}
          /\ pc' = IF changed THEN "open" ELSE "done"
          /\ new_text' = IF changed THEN DumpWithJsonp(cb, data) ELSE new_text
          /\ UNCHANGED <<data, changed, exc>>
    /\ UNCHANGED <<hvars, phase, run, original, cb, idx,
                   failures, removeFailed, prevClean, startText, observed>>

\* the file the new text is written to, were it the metadata file itself
WriteInPlace == "app"

\* line 169: tmp = APP_RESP + '.tmp'
TmpFile == "tmp"

\* line 171: open(tmp, 'w') creates or truncates the file
OpenTmp ==
    /\ phase = "startup" /\ pc = "open"
    /\ \/ /\ files' = [files EXCEPT ![TmpFile] = <<>>]
          /\ pc' = "write"
          /\ UNCHANGED <<exc, failures>>
       \/ /\ failures' = failures \cup {"open"}
          /\ exc' = "OSError"
          /\ pc' = "cleanup"
          /\ UNCHANGED files
    /\ UNCHANGED <<disk, tar_url, local, request, response, phase, run, original, cb,
                   data, changed, idx, new_text, failedAt, removeFailed, prevClean, startText, observed>>

\* how much of the text one write to the disk carries
Chunk(text) == (Len(text) + 1) \div 2

\* lines 171-172: f.write and the close of the with block put the text on disk
\* piece by piece; a failure leaves what was written
WriteTmp ==
    /\ phase = "startup" /\ pc = "write"
    /\ \/ /\ files' = [files EXCEPT ![TmpFile] =
                          Take(new_text, Min(Len(new_text), Len(@) + Chunk(new_text)))]
          /\ pc' = IF files'[TmpFile] = new_text THEN "replace" ELSE "write"
          /\ UNCHANGED <<exc, failures>>
       \/ /\ failures' = failures \cup {"write"}
          /\ exc' = "OSError"
          /\ pc' = "cleanup"
          /\ UNCHANGED files
    /\ UNCHANGED <<disk, tar_url, local, request, response, phase, run, original, cb,
                   data, changed, idx, new_text, failedAt, removeFailed, prevClean, startText, observed>>

\* line 173: os.replace(tmp, APP_RESP), one atomic rename
Replace ==
    /\ phase = "startup" /\ pc = "replace"
    /\ \/ /\ files' = IF TmpFile = "app" THEN files
                      ELSE [files EXCEPT !["app"] = files[TmpFile], ![TmpFile] = Missing]
          /\ UNCHANGED <<exc, failures>>
       \/ /\ failures' = failures \cup {"replace"}
          /\ exc' = "OSError"
          /\ UNCHANGED files
    /\ pc' = "cleanup"
    /\ UNCHANGED <<disk, tar_url, local, request, response, phase, run, original, cb,
                   data, changed, idx, new_text, failedAt, removeFailed, prevClean, startText, observed>>

\* the finally block without the removal
NoRemove(fs) == fs

\* line 178: os.remove(tmp)
Remove(fs) == [fs EXCEPT ![TmpFile] = Missing]

\* lines 175-180: the finally block; a failing os.remove is swallowed
Cleanup ==
    /\ phase = "startup" /\ pc = "cleanup"
    /\ \/ /\ files[TmpFile] = Missing
          /\ UNCHANGED <<files, failures, removeFailed>>
       \/ /\ files[TmpFile] # Missing
          /\ files' = Remove(files)
          /\ UNCHANGED <<failures, removeFailed>>
       \/ /\ files[TmpFile] # Missing
          /\ failures' = failures \cup {"remove"}
          /\ removeFailed' = TRUE
          /\ UNCHANGED files
    /\ pc' = IF exc = "none" THEN "done" ELSE "raised"
    /\ UNCHANGED <<disk, tar_url, local, request, response, phase, run, original, cb,
                   data, changed, idx, exc, new_text, failedAt, prevClean, startText, observed>>

\* the module-level call without its try
StartupUnguarded(e) == IF e = "none" THEN "serving" ELSE "crashed"

\* lines 183-187: whatever update_app_response_md5s raises is dropped
StartupGuarded(e) == "serving"

\* lines 183-191: the call returns or raises, and the routes are set up
FinishStartup ==
    /\ phase = "startup" /\ pc \in {"done", "raised"}
    /\ phase' = StartupGuarded(exc)
    /\ UNCHANGED <<hvars, run, pc, original, cb, data, changed, idx, exc, new_text, hist>>

\* the process is started again: the module is loaded a second time
Restart ==
    /\ phase = "serving" /\ run < MaxRuns
    /\ phase' = "startup"
    /\ run' = run + 1
    /\ pc' = "start"
    /\ original' = NoText /\ cb' = <<>> /\ data' = NoData /\ changed' = FALSE
    /\ idx' = 0 /\ exc' = "none" /\ new_text' = NoText
    /\ prevClean' = (failures = {} /\ failedAt = {})
    /\ failures' = {} /\ failedAt' = {}
    /\ startText' = files["app"]
    /\ request' = NoRequest /\ response' = NoResponse
    /\ UNCHANGED <<disk, files, tar_url, local, removeFailed, observed>>

\* load_text('app_response.txt') in another process, while this one starts
ConcurrentRead ==
    /\ observed' = files["app"]
    /\ observed' # observed
    /\ UNCHANGED <<hvars, phase, run, pc, original, cb, data, changed, idx, exc,
                   new_text, failures, failedAt, removeFailed, prevClean, startText>>

Refresh == \/ Start \/ Read \/ Parse \/ ProcessApp \/ ProcessTop
           \/ OpenTmp \/ WriteTmp \/ Replace \/ Cleanup \/ FinishStartup

(***************************************************************************)
(* The metadata files the process may find.                                *)
(***************************************************************************)
Member(k, v) == [k |-> k, v |-> v]

EntryStale == Obj(<<Member(K_TAR, Str(V_A)), Member(K_MD5, Str(V_STALE))>>)

EntryRight == Obj(<<Member(K_TAR, Str(V_BA)), Member(K_MD5, Str(V_D2))>>)

EntryNoMd5 == Obj(<<Member(K_NAME, Str(V_ESC_N)), Member(K_TAR, Str(V_A))>>)

EntryNotObject == Str(V_N)

EntryKinds == <<EntryStale, EntryRight, EntryNoMd5, EntryNotObject>>

\* the entries of a list picked by a set of indices, in the order of the list
RECURSIVE Picked(_, _)
Picked(list, chosen) ==
    IF list = <<>> THEN <<>>
    ELSE (IF Len(list) \in chosen THEN Picked(Take(list, Len(list) - 1), chosen)
                                         \o <<list[Len(list)]>>
          ELSE Picked(Take(list, Len(list) - 1), chosen))

Reversed(list) == [i \in 1..Len(list) |-> list[Len(list) + 1 - i]]

\* the apps lists: up to MaxApps entries of different kinds, in either order
AppLists == LET up == {Picked(EntryKinds, c) :
                         c \in {x \in SUBSET (1..Len(EntryKinds)) :
                                    Cardinality(x) <= MaxApps}}
            IN up \cup {Reversed(l) : l \in up}

TopPair == <<Member(K_TAR, Str(V_A)), Member(K_MD5, Str(V_STALE))>>

Documents == {Obj(<<Member(K_APPS, Arr(l))>> \o top) : l \in AppLists, top \in {<<>>, TopPair}}

\* the text with a space after every ',' and ':'
RECURSIVE Spaced(_)
Spaced(ts) == IF ts = <<>> THEN <<>>
              ELSE IF ts[1] \in {",", ":"} THEN <<ts[1], " ">> \o Spaced(Tail(ts))
              ELSE <<ts[1]>> \o Spaced(Tail(ts))

MetaTexts ==
    {DumpValue(d) : d \in Documents}
    \cup {<<"c", "(">> \o DumpValue(d) \o CLOSE : d \in Documents}
    \cup {<<" ", "c", " ", "(">> \o Spaced(DumpValue(d)) \o <<" ">> \o CLOSE \o <<"\n">> :
             d \in Documents}
    \cup {<<"c", "(", "{">>, <<"[", "]">>, <<"{", K_APPS, ":", "{", V_A, ":", V_D1, "}", "}">>}

RefreshDisks == (SUBSET {FlatA, ModA}) \ {{}}

Init == /\ disk \in RefreshDisks
        /\ \E t \in MetaTexts \cup {Missing} :
              /\ files = [NoFiles EXCEPT !["app"] = t]
              /\ startText = t
        /\ tar_url = <<>>
        /\ local = None
        /\ request = NoRequest
        /\ response = NoResponse
        /\ phase = "startup"
        /\ run = 1
        /\ pc = "start"
        /\ original = NoText
        /\ cb = <<>>
        /\ data = NoData
        /\ changed = FALSE
        /\ idx = 0
        /\ exc = "none"
        /\ new_text = NoText
        /\ failures = {}
        /\ failedAt = {}
        /\ removeFailed = FALSE
        /\ prevClean = FALSE
        /\ observed = NoText

Next == Refresh \/ Restart

Spec == Init /\ [][Next]_vars

NextConcurrent == Refresh \/ ConcurrentRead

SpecConcurrent == Init /\ [][NextConcurrent]_vars

(***************************************************************************)
(* The refresh: what the claims say of it.                                 *)
(***************************************************************************)
\* update_app_response_md5s has returned or raised
Finished == pc \in {"done", "raised"}

WriteSteps == {"open", "write", "replace", "cleanup"}

\* the entry as the refresh should leave it
Fresh(item) ==
    IF EntryKind(item) = "digest"
    THEN Put(item, K_MD5, Str(DigestOf(Resolve(EntryLocal(item)))))
    ELSE item

\* the document as the refresh should leave it
Expected(doc) ==
    Fresh(IF HasKey(doc, K_APPS) /\ Get(doc, K_APPS).t = "arr"
          THEN Put(doc, K_APPS, Arr([i \in 1..Len(Items(doc)) |-> Fresh(Items(doc)[i])]))
          ELSE doc)

\* every entry that resolves, and the top level if it does, holds its digest
DigestsRight(doc) ==
    /\ Fresh(doc) = doc
    /\ \A i \in 1..Len(Items(doc)) : Fresh(Items(doc)[i]) = Items(doc)[i]

\* an entry that resolves holds an md5 that is not its digest
HasStale(doc) == doc.t = "obj" /\ ~DigestsRight(doc)

\* element i of the text is the value of an "md5" member
Md5ValueAt(text, i) ==
    LET pre == RStripSet(Take(text, i - 1), WS)
    IN /\ pre # <<>> /\ pre[Len(pre)] = ":"
       /\ EndsWith(RStripSet(Take(pre, Len(pre) - 1), WS), <<K_MD5>>)

\* the two texts are the same but for the values of their "md5" members
SameApartFromMd5(old, new) ==
    /\ Len(old) = Len(new)
    /\ \A i \in 1..Len(old) : old[i] # new[i] => Md5ValueAt(old, i)

\* the run returned having met no failure, on a metadata file that parses
CleanReturn ==
    /\ pc = "done" /\ exc = "none"
    /\ failures = {} /\ failedAt = {}
    /\ startText # Missing
    /\ ParseJsonp(startText).ok

\* every entry, and the top level if it names an archive, resolves to a file
\* and carries an md5
AllResolve(doc) ==
    /\ Items(doc) # <<>>
    /\ \A i \in 1..Len(Items(doc)) :
          EntryKind(Items(doc)[i]) = "digest" /\ HasKey(Items(doc)[i], K_MD5)
    /\ HasKey(doc, K_TAR) => (EntryKind(doc) = "digest" /\ HasKey(doc, K_MD5))

StaleAndRight == Obj(<<Member(K_APPS, Arr(<<EntryStale, EntryRight>>))>>)

Done(doc) == 1..Min(IF pc = "apps" THEN idx - 1 ELSE Len(Items(doc)), Len(Items(doc)))

\* C7: no failure of the refresh leaves the startup step (the process is never
\* stopped by it: once the refresh has returned or raised, the process serves
\* or is about to); an entry whose digest failed keeps its
\* md5 while the other entries the loop has been through are updated; and a read
\* or parse failure leaves the metadata file as it was
C7_FailurePolicy ==
    /\ phase \in {"startup", "serving"}
    /\ Finished => ENABLED FinishStartup \/ phase = "serving"
    /\ (pc \in {"apps", "top"} \/ (pc = "done" /\ data.t = "obj")) =>
          LET old == ParseJsonp(original).data IN
          \A i \in Done(old) :
              Items(data)[i] = IF i \in failedAt THEN Items(old)[i] ELSE Fresh(Items(old)[i])
    /\ (pc = "done" /\ exc = "none" /\ changed /\ failures = {}) =>
          ParseJsonp(files["app"]).data = data
    /\ ("read" \in failures \/ (original # NoText /\ ~ParseJsonp(original).ok)) =>
          files["app"] = startText

C7_Witness_OneDigestFailed ==
    /\ phase = "serving"
    /\ failedAt = {1}
    /\ Len(Items(data)) = 2
    /\ Items(data)[1] = EntryStale
    /\ ~HasKey(Items(ParseJsonp(startText).data)[2], K_MD5)
    /\ Get(Items(data)[2], K_MD5) = Str(V_D1)
    /\ ParseJsonp(files["app"]).data = data
    /\ files["app"] # startText

\* C8: while the refresh rewrites the metadata file, the file at the metadata
\* path holds the complete old text or the complete new text, and a concurrent
\* load_text reads one of the two
C8_AtomicSwap ==
    /\ files["app"] \in {startText, new_text}
    /\ observed \in {NoText, startText, new_text}
    /\ new_text # NoText => ParseJsonp(new_text).ok

C8_Witness_ReadDuringWrite ==
    /\ pc = "write"
    /\ files["tmp"] # <<>>
    /\ files["tmp"] # new_text
    /\ observed = startText
    /\ startText # new_text

=============================================================================
